---- MODULE Spec2Model ----
(***************************************************************************)
(* Pink Morsels sales dashboard (app.py) and raw-file formatter            *)
(* (process_data.py).                                                      *)
(*                                                                         *)
(* Text is modelled as a sequence of one-character strings, so that        *)
(* strip / lower / replace / substring search are computed, not assumed.   *)
(* A missing CSV cell (pandas NaN) is the one-element sequence NaN.        *)
(* A parsed number or date is an option: <<>> is NaN / NaT, <<v>> is v.    *)
(* Sales amounts are whole numbers; sums are exact (float rounding of      *)
(* additions is not modelled), the mean is kept as a fraction.             *)
(***************************************************************************)
EXTENDS Integers, Sequences, FiniteSets, TLC

VARIABLES raw, pc, df_clean, missing, region_value, locals, result,
          files, fpc, fdf, out_file

vars == <<raw, pc, df_clean, missing, region_value, locals, result,
          files, fpc, fdf, out_file>>

appVars == <<raw, pc, df_clean, missing, region_value, locals, result>>
fmtVars == <<files, fpc, fdf, out_file>>

(***************************************************************************)
(* Bounds                                                                  *)
(***************************************************************************)
MaxRows == 2
MaxCols == 3
MaxSchemaRows == 1
MaxRawRows == 2

(***************************************************************************)
(* Text helpers                                                            *)
(***************************************************************************)
\* the euro sign character (one character, named in ASCII)
EuroSign == "EURO SIGN"

NaN == <<"#NaN">>
None == <<"#None">>

SeqsUpTo(S, n) == UNION {[1..k -> S] : k \in 0..n}

Range(s) == {s[i] : i \in DOMAIN s}

\* str.lower(), on the letters that occur in the modelled texts
LowerChar(c) ==
  CASE c = "A" -> "a" [] c = "D" -> "d" [] c = "E" -> "e" [] c = "L" -> "l"
    [] c = "M" -> "m" [] c = "N" -> "n" [] c = "P" -> "p" [] c = "R" -> "r"
    [] c = "S" -> "s" [] c = "T" -> "t" [] OTHER -> c

Lower(s) == [i \in DOMAIN s |-> LowerChar(s[i])]

RECURSIVE LStrip(_)
LStrip(s) == IF s # <<>> /\ Head(s) = " " THEN LStrip(Tail(s)) ELSE s

RECURSIVE RStrip(_)
RStrip(s) ==
  IF s # <<>> /\ s[Len(s)] = " " THEN RStrip(SubSeq(s, 1, Len(s) - 1)) ELSE s

\* str.strip()
Strip(s) == RStrip(LStrip(s))

\* str.replace(ch, "", regex=False)
RemoveChar(s, ch) == SelectSeq(s, LAMBDA c : c # ch)

\* Python "cand in c" on strings
Contains(c, cand) ==
  \E i \in 0..(Len(c) - Len(cand)) : SubSeq(c, i + 1, i + Len(cand)) = cand

\* Series.astype(str): a missing value becomes the text "nan" (object
\* columns, pandas 1.x / 2.x)
AstypeStr(cell) == IF cell = NaN THEN <<"n", "a", "n">> ELSE cell

DigitVal(c) ==
  CASE c = "0" -> 0 [] c = "1" -> 1 [] c = "2" -> 2 [] c = "3" -> 3
    [] c = "4" -> 4 [] c = "5" -> 5 [] c = "6" -> 6 [] c = "7" -> 7
    [] c = "8" -> 8 [] c = "9" -> 9 [] OTHER -> 0 - 1

IsDigits(s) == s # <<>> /\ \A i \in DOMAIN s : DigitVal(s[i]) >= 0

RECURSIVE DigitsValue(_)
DigitsValue(s) ==
  IF s = <<>> THEN 0
  ELSE 10 * DigitsValue(SubSeq(s, 1, Len(s) - 1)) + DigitVal(s[Len(s)])

\* pd.to_numeric(errors="coerce") on the modelled texts
ToNumeric(s) == IF IsDigits(s) THEN <<DigitsValue(s)>> ELSE <<>>

(***************************************************************************)
(* Dates: a date text is one token; pd.to_datetime is a lookup into the    *)
(* calendar (day number within January 2021).                              *)
(***************************************************************************)
D14 == <<"2021-01-14">>
D15 == <<"2021-01-15">>
DBad == <<"not a date">>

\* pd.to_datetime(errors="coerce")
ToDatetime(cell) ==
  CASE cell = D14 -> <<14>> [] cell = D15 -> <<15>> [] OTHER -> <<>>

PriceIncreaseDay == 15

(***************************************************************************)
(* Tables.  A raw table is [columns, rows]: a sequence of column names and *)
(* a sequence of rows, each row a sequence of cells aligned with columns.  *)
(***************************************************************************)
Min(S) == CHOOSE x \in S : \A y \in S : x <= y
Max(S) == CHOOSE x \in S : \A y \in S : x >= y

tSales == <<"s", "a", "l", "e", "s">>
tDate == <<"d", "a", "t", "e">>
tRegion == <<"r", "e", "g", "i", "o", "n">>

\* _normalize_cols
NormalizeCols(df) ==
  [df EXCEPT !.columns = [j \in DOMAIN @ |-> Lower(Strip(@[j]))]]

\* _find_col: exact match on a candidate first, then the first column (in
\* column order) that contains a candidate, else None
FindCol(df, candidates) ==
  LET cols == Range(df.columns)
      exact == {k \in DOMAIN candidates : candidates[k] \in cols}
      partial == {j \in DOMAIN df.columns :
                    \E k \in DOMAIN candidates :
                       Contains(df.columns[j], candidates[k])}
  IN  IF exact # {} THEN candidates[Min(exact)]
      ELSE IF partial # {} THEN df.columns[Min(partial)]
      ELSE None

\* variant: the Date test appends the wrong label
MissingListMislabel(sales_col, date_col, region_col) ==
  (IF sales_col = None THEN <<"Sales">> ELSE <<>>) \o
  (IF date_col = None THEN <<"Sales">> ELSE <<>>) \o
  (IF region_col = None THEN <<"Region">> ELSE <<>>)

\* the `missing` list built when a column is not located
MissingList(sales_col, date_col, region_col) ==
  (IF sales_col = None THEN <<"Sales">> ELSE <<>>) \o
  (IF date_col = None THEN <<"Date">> ELSE <<>>) \o
  (IF region_col = None THEN <<"Region">> ELSE <<>>)

\* df.rename(columns={sales_col: "sales", date_col: "date", region_col:
\* "region"}): in the dict literal a repeated key keeps its last value
RenameCols(df, sales_col, date_col, region_col) ==
  [df EXCEPT !.columns =
     [j \in DOMAIN @ |->
        IF @[j] = region_col THEN tRegion
        ELSE IF @[j] = date_col THEN tDate
        ELSE IF @[j] = sales_col THEN tSales
        ELSE @[j]]]

ColIndexes(df, name) == {j \in DOMAIN df.columns : df.columns[j] = name}

\* df[name] is a single Series only when exactly one column has that name:
\* none raises KeyError, several give a DataFrame on which .str /
\* to_datetime raise
Selectable(df, name) == Cardinality(ColIndexes(df, name)) = 1

Cell(df, i, name) == df.rows[i][CHOOSE j \in ColIndexes(df, name) : TRUE]

\* df["region"].astype(str).str.strip().str.lower()
CleanRegion(cell) == Lower(Strip(AstypeStr(cell)))

\* the sales text with ",", the euro sign, "$" removed and stripped, then to_numeric
CleanSales(cell) ==
  ToNumeric(Strip(RemoveChar(RemoveChar(RemoveChar(AstypeStr(cell),
                                                   ","), EuroSign), "$")))

\* the three coerced columns of the renamed table, row by row
Coerce(df) ==
  [i \in DOMAIN df.rows |->
     [sales |-> CleanSales(Cell(df, i, tSales)),
      date |-> ToDatetime(Cell(df, i, tDate)),
      region |-> CleanRegion(Cell(df, i, tRegion))]]

\* df.dropna(subset=["date", "sales", "region"]); the surviving values are
\* unwrapped
Dropna(rows) ==
  LET kept == SelectSeq(rows, LAMBDA r :
                 r.date # <<>> /\ r.sales # <<>> /\ r.region # NaN)
  IN  [i \in DOMAIN kept |->
         [sales |-> kept[i].sales[1], date |-> kept[i].date[1],
          region |-> kept[i].region]]

NoneTable == [isNone |-> TRUE, rows |-> <<>>]

(***************************************************************************)
(* Aggregation and formatting used by update                              *)
(***************************************************************************)
RECURSIVE SumSales(_)
SumSales(rows) ==
  IF rows = <<>> THEN 0 ELSE Head(rows).sales + SumSales(Tail(rows))

RECURSIVE SortedSeq(_)
SortedSeq(S) ==
  IF S = {} THEN <<>> ELSE <<Min(S)>> \o SortedSeq(S \ {Min(S)})

\* variant: the first sales value of each date instead of the sum
GroupByFirst(dff) ==
  LET keys == SortedSeq({dff[i].date : i \in DOMAIN dff})
  IN  [k \in DOMAIN keys |->
         [date |-> keys[k],
          sales |-> Head(SelectSeq(dff, LAMBDA r : r.date = keys[k])).sales]]

\* variant: one group per input row (rows of one date are not merged)
GroupByRow(dff) ==
  [i \in DOMAIN dff |-> [date |-> dff[i].date, sales |-> dff[i].sales]]

\* groupby("date", as_index=False)["sales"].sum(): one row per distinct
\* date, group keys in ascending order (sort=True is the default)
GroupBySum(dff) ==
  LET keys == SortedSeq({dff[i].date : i \in DOMAIN dff})
  IN  [k \in DOMAIN keys |->
         [date |-> keys[k],
          sales |-> SumSales(SelectSeq(dff, LAMBDA r : r.date = keys[k]))]]

RECURSIVE InsertByDate(_, _)
InsertByDate(sorted, r) ==
  IF sorted = <<>> THEN <<r>>
  ELSE IF r.date < Head(sorted).date THEN <<r>> \o sorted
  ELSE <<Head(sorted)>> \o InsertByDate(Tail(sorted), r)

\* sort_values("date")
RECURSIVE SortValues(_)
SortValues(rows) ==
  IF rows = <<>> THEN <<>>
  ELSE InsertByDate(SortValues(SubSeq(rows, 1, Len(rows) - 1)),
                    rows[Len(rows)])

RECURSIVE FirstSeen(_)
FirstSeen(dates) ==
  IF dates = <<>> THEN <<>>
  ELSE LET before == FirstSeen(SubSeq(dates, 1, Len(dates) - 1))
       IN  IF dates[Len(dates)] \in Range(before) THEN before
           ELSE Append(before, dates[Len(dates)])

\* variant: groups kept in order of first appearance, never sorted
DailyUnsorted(dff) ==
  LET keys == FirstSeen([i \in DOMAIN dff |-> dff[i].date])
  IN  [k \in DOMAIN keys |->
         [date |-> keys[k],
          sales |-> SumSales(SelectSeq(dff, LAMBDA r : r.date = keys[k]))]]

\* daily = dff.groupby(...)["sales"].sum().sort_values("date")
Daily(dff) == SortValues(GroupBySum(dff))

\* daily["sales"].mean(), as a fraction
Mean(daily) == [num |-> SumSales(daily), den |-> Len(daily)]

\* rounding of the ".0f" format: nearest integer, ties to even
RoundHalfEven(num, den) ==
  LET q == num \div den
      r == num % den
  IN  IF 2 * r < den THEN q
      ELSE IF 2 * r > den THEN q + 1
      ELSE IF q % 2 = 0 THEN q ELSE q + 1

DigitChar(d) ==
  CASE d = 0 -> "0" [] d = 1 -> "1" [] d = 2 -> "2" [] d = 3 -> "3"
    [] d = 4 -> "4" [] d = 5 -> "5" [] d = 6 -> "6" [] d = 7 -> "7"
    [] d = 8 -> "8" [] d = 9 -> "9"

RECURSIVE Digits(_)
Digits(n) ==
  IF n < 10 THEN <<DigitChar(n)>>
  ELSE Digits(n \div 10) \o <<DigitChar(n % 10)>>

\* the "," format option: groups of three digits from the right
RECURSIVE FormatThousands(_)
FormatThousands(n) ==
  IF n < 1000 THEN Digits(n)
  ELSE FormatThousands(n \div 1000) \o <<",">> \o
       <<DigitChar((n % 1000) \div 100), DigitChar((n % 100) \div 10),
         DigitChar(n % 10)>>

\* f"{x:,.0f}" for a non-negative fraction
FormatFloat0(num, den) == FormatThousands(RoundHalfEven(num, den))

RECURSIVE Join(_, _)
Join(parts, sep) ==
  IF parts = <<>> THEN <<>>
  ELSE IF Len(parts) = 1 THEN parts
  ELSE <<Head(parts), sep>> \o Join(Tail(parts), sep)

MissingMessage(names) ==
  <<"CSV columns missing. Expected: Sales, Date, Region. Missing: ">> \o
  Join(names, ", ")

NoDataMessage == <<"No data for this region.">>

\* _empty_figure
EmptyFigure(message) == [kind |-> "empty", message |-> message]

\* px.line(daily, x="date", y="sales") with the price-increase marker
LineFigure(daily) ==
  [kind |-> "line",
   x |-> [i \in DOMAIN daily |-> daily[i].date],
   y |-> [i \in DOMAIN daily |-> daily[i].sales],
   vline |-> PriceIncreaseDay,
   annotation_y |-> Max({daily[i].sales : i \in DOMAIN daily})]

\* the em dash shown in place of a KPI (one character, named in ASCII)
Placeholder == <<"EM DASH">>
Zero == <<"0">>

All == <<"a", "l", "l">>
North == <<"n", "o", "r", "t", "h">>
East == <<"e", "a", "s", "t">>
South == <<"s", "o", "u", "t", "h">>
West == <<"w", "e", "s", "t">>

\* the values of REGION_OPTIONS
REGION_OPTIONS == {All, North, East, South, West}

\* what the callback can be handed: an option value, or no value
RegionValues == REGION_OPTIONS \cup {None}

NoLocals ==
  [aggregated |-> FALSE, dff |-> <<>>, daily |-> <<>>, total_sales |-> 0,
   avg_daily |-> [num |-> 0, den |-> 1], days |-> 0]

NoResult == [figure |-> [kind |-> "none"], total |-> <<>>, avg |-> <<>>,
             days |-> <<>>]

(***************************************************************************)
(* Dashboard (app.py): inputs                                              *)
(***************************************************************************)
\* column names a CSV header is drawn from, each with the kind of cell the
\* column holds (s: sales text, d: date text, r: region text)
ColPool ==
  {[name |-> <<"S", "a", "l", "e", "s">>, kind |-> "s"],
   [name |-> <<"s", "a", "l", "e", "s", " ">>, kind |-> "s"],
   [name |-> <<"D", "a", "t", "e">>, kind |-> "d"],
   [name |-> <<"R", "e", "g", "i", "o", "n">>, kind |-> "r"],
   [name |-> <<"s", "a", "l", "e", "s", "_", "d", "a", "t", "e">>,
    kind |-> "d"],
   [name |-> <<"t", "o", "t", "a", "l", " ", "s", "a", "l", "e", "s">>,
    kind |-> "s"],
   [name |-> <<"s", "t", "o", "r", "e", " ", "R", "E", "G", "I", "O", "N">>,
    kind |-> "r"],
   [name |-> <<"o", "r", "d", "e", "r", "_", "d", "a", "t", "e">>,
    kind |-> "d"],
   [name |-> <<"p", "r", "i", "c", "e">>, kind |-> "s"]}

\* headers: read_csv keeps raw column names distinct
Headers ==
  {h \in SeqsUpTo(ColPool, MaxCols) :
     /\ Len(h) >= 1
     /\ \A i, j \in DOMAIN h : i # j => h[i] # h[j]}

\* the header written by the formatter
StandardHeader ==
  <<[name |-> <<"S", "a", "l", "e", "s">>, kind |-> "s"],
    [name |-> <<"D", "a", "t", "e">>, kind |-> "d"],
    [name |-> <<"R", "e", "g", "i", "o", "n">>, kind |-> "r"]>>

SalesCells ==
  {<<"$", "5">>, <<" ", EuroSign, "1", ",", "0", "0", "0">>,
   <<"N", "/", "A">>, NaN}
DateCells == {D14, D15, DBad}
RegionCells == {<<" ", "N", "o", "r", "t", "h">>,
                <<"s", "o", "u", "t", "h">>, NaN}

RowPool == [s : SalesCells, d : DateCells, r : RegionCells]

SchemaRowPool ==
  {[s |-> <<"$", "5">>, d |-> D14, r |-> <<" ", "N", "o", "r", "t", "h">>],
   [s |-> <<"N", "/", "A">>, d |-> DBad, r |-> NaN]}

\* pd.read_csv(CSV_FILE): the table with header h and the given rows
ReadCsv(h, trows) ==
  [columns |-> [j \in DOMAIN h |-> h[j].name],
   rows |-> [i \in DOMAIN trows |->
               [j \in DOMAIN h |-> trows[i][h[j].kind]]]]

InitApp ==
  /\ \/ \E trows \in SeqsUpTo(RowPool, MaxRows) :
          raw = ReadCsv(StandardHeader, trows)
     \/ \E h \in Headers, trows \in SeqsUpTo(SchemaRowPool, MaxSchemaRows) :
          raw = ReadCsv(h, trows)
  /\ pc = "start"
  /\ df_clean = NoneTable
  /\ missing = <<>>
  /\ region_value = None
  /\ locals = NoLocals
  /\ result = NoResult

(***************************************************************************)
(* Dashboard: module-level load and clean (app.py lines 50-86)             *)
(***************************************************************************)
Load ==
  /\ pc = "start"
  /\ LET df == NormalizeCols(raw)
         sales_col == FindCol(df, <<tSales>>)
         date_col == FindCol(df, <<tDate>>)
         region_col == FindCol(df, <<tRegion>>)
         renamed == RenameCols(df, sales_col, date_col, region_col)
     IN  IF sales_col = None \/ date_col = None \/ region_col = None
         THEN /\ missing' = MissingList(sales_col, date_col, region_col)
              /\ df_clean' = NoneTable
              /\ pc' = "loaded"
         ELSE IF /\ Selectable(renamed, tRegion)
                 /\ Selectable(renamed, tDate)
                 /\ Selectable(renamed, tSales)
         THEN /\ df_clean' = [isNone |-> FALSE,
                              rows |-> Dropna(Coerce(renamed))]
              /\ pc' = "loaded"
              /\ UNCHANGED missing
         ELSE \* KeyError / AttributeError / ValueError at import
              /\ pc' = "crashed"
              /\ UNCHANGED <<df_clean, missing>>
  /\ UNCHANGED <<raw, region_value, locals, result, fmtVars>>

(***************************************************************************)
(* Dashboard: the callback update(region_value) (app.py lines 287-339)     *)
(***************************************************************************)
\* the return value when no row matches (line 299)
EmptyResultPlaceholders ==
  [figure |-> EmptyFigure(NoDataMessage), total |-> Placeholder,
   avg |-> Placeholder, days |-> Placeholder]

EmptyResult ==
  [figure |-> EmptyFigure(NoDataMessage), total |-> Zero, avg |-> Zero,
   days |-> Zero]

\* variant: the filter is applied whatever the value, "all" included
FilterRegionAlways(rows, rv) == SelectSeq(rows, LAMBDA r : r.region = rv)

\* dff after the region filter
FilterRegion(rows, rv) ==
  IF rv # All THEN SelectSeq(rows, LAMBDA r : r.region = rv) ELSE rows

Update(rv) ==
  /\ pc = "loaded"
  /\ region_value' = rv
  /\ IF df_clean.isNone
     THEN /\ result' = [figure |-> EmptyFigure(MissingMessage(missing)),
                        total |-> Placeholder, avg |-> Placeholder,
                        days |-> Placeholder]
          /\ locals' = NoLocals
     ELSE LET dff == FilterRegion(df_clean.rows, rv)
          IN  IF dff = <<>>
              THEN /\ result' = EmptyResult
                   /\ locals' = [NoLocals EXCEPT !.dff = dff]
              ELSE LET daily == Daily(dff)
                       total_sales == SumSales(daily)
                       avg_daily == Mean(daily)
                       days == Len(daily)
                   IN  /\ locals' = [aggregated |-> TRUE, dff |-> dff,
                                     daily |-> daily,
                                     total_sales |-> total_sales,
                                     avg_daily |-> avg_daily, days |-> days]
                       /\ result' =
                            [figure |-> LineFigure(daily),
                             total |-> FormatFloat0(total_sales, 1),
                             avg |-> FormatFloat0(avg_daily.num,
                                                  avg_daily.den),
                             days |-> FormatThousands(days)]
  /\ UNCHANGED <<raw, pc, df_clean, missing, fmtVars>>

UpdateAny == \E rv \in RegionValues : Update(rv)

(***************************************************************************)
(* Formatter (process_data.py)                                             *)
(***************************************************************************)
PinkMorsel == <<"p", "i", "n", "k", " ", "m", "o", "r", "s", "e", "l">>

Products == {<<"P", "i", "n", "k", " ", "M", "o", "r", "s", "e", "l">>,
             <<"g", "o", "l", "d", " ", "m", "o", "r", "s", "e", "l">>}
Prices == {<<"$", "3">>, <<"$", "1", ",", "0", "0", "0">>,
           <<"a", "b", "c">>, NaN}
Quantities == {2, 3}
Places == {[date |-> D14, region |-> <<"n", "o", "r", "t", "h">>],
           [date |-> D15, region |-> <<"S", "o", "u", "t", "h">>]}

RawRowPool ==
  {[product |-> p, price |-> c, quantity |-> q, date |-> pl.date,
    region |-> pl.region] :
     p \in Products, c \in Prices, q \in Quantities, pl \in Places}

NoFile == [written |-> FALSE, columns |-> <<>>, rows |-> <<>>]

InitFormatter ==
  /\ \E rows \in SeqsUpTo(RawRowPool, MaxRawRows) :
       \E i \in 0..Len(rows) : \E j \in i..Len(rows) :
          files = <<SubSeq(rows, 1, i), SubSeq(rows, i + 1, j),
                    SubSeq(rows, j + 1, Len(rows))>>
  /\ fpc = "start"
  /\ fdf = <<>>
  /\ out_file = NoFile

\* pd.concat([df1, df2, df3])
Concat(fs) == fs[1] \o fs[2] \o fs[3]

\* .str.lower(): a missing value stays missing
StrLower(cell) == IF cell = NaN THEN NaN ELSE Lower(cell)

\* variant: the product compared without lowering it
KeepPinkMorselExact(df) == SelectSeq(df, LAMBDA r : r.product = PinkMorsel)

\* df[df["product"].str.lower() == "pink morsel"]
KeepPinkMorsel(df) ==
  SelectSeq(df, LAMBDA r : StrLower(r.product) = PinkMorsel)

\* .replace('[\$,]', '', regex=True): a missing value stays missing
StripPrice(cell) ==
  IF cell = NaN THEN NaN ELSE RemoveChar(RemoveChar(cell, "$"), ",")

\* variant: every value converts (as with a coercing conversion)
FloatOkCoerce(cell) == TRUE

\* .astype(float) on one value: a missing value is NaN, a numeral its
\* value (surrounding blanks allowed), anything else raises ValueError
FloatOk(cell) == cell = NaN \/ IsDigits(Strip(cell))
ToFloat(cell) == IF cell = NaN THEN <<>> ELSE <<DigitsValue(Strip(cell))>>

\* price * quantity, NaN propagating
Times(price, quantity) ==
  IF price = <<>> THEN <<>> ELSE <<price[1] * quantity>>

\* lines 9-24: concat, product filter, price cleaning, Sales column,
\* column selection and renaming; a price that does not convert raises
Transform ==
  /\ fpc = "start"
  /\ LET kept == KeepPinkMorsel(Concat(files))
     IN  IF \A i \in DOMAIN kept : FloatOk(StripPrice(kept[i].price))
         THEN /\ fdf' = [columns |-> <<"Sales", "Date", "Region">>,
                         rows |-> [i \in DOMAIN kept |->
                                     <<Times(ToFloat(StripPrice(kept[i].price)),
                                             kept[i].quantity),
                                       kept[i].date, kept[i].region>>]]
              /\ fpc' = "transformed"
         ELSE /\ fpc' = "failed"
              /\ UNCHANGED fdf
  /\ UNCHANGED <<files, out_file, appVars>>

\* line 27: df.to_csv("formatted_sales_data.csv", index=False)
Save ==
  /\ fpc = "transformed"
  /\ out_file' = [written |-> TRUE, columns |-> fdf.columns,
                  rows |-> fdf.rows]
  /\ fpc' = "done"
  /\ UNCHANGED <<files, fdf, appVars>>

(***************************************************************************)
(* Specifications                                                          *)
(***************************************************************************)
Init ==
  /\ InitApp
  /\ files = <<<<>>, <<>>, <<>>>>
  /\ fpc = "idle"
  /\ fdf = <<>>
  /\ out_file = NoFile

Next == Load \/ UpdateAny

Spec == Init /\ [][Next]_vars

FInit ==
  /\ InitFormatter
  /\ raw = [columns |-> <<>>, rows |-> <<>>]
  /\ pc = "idle"
  /\ df_clean = NoneTable
  /\ missing = <<>>
  /\ region_value = None
  /\ locals = NoLocals
  /\ result = NoResult

FNext == Transform \/ Save

SpecFormatter == FInit /\ [][FNext]_vars

(***************************************************************************)
(* Properties of the dashboard (checked under Spec)                        *)
(***************************************************************************)
Updated == result # NoResult

\* the raw table with normalized names and the three resolved columns
\* renamed, as the loader sees it
Resolved ==
  LET df == NormalizeCols(raw)
  IN  RenameCols(df, FindCol(df, <<tSales>>), FindCol(df, <<tDate>>),
                 FindCol(df, <<tRegion>>))

\* a required token is located when some trimmed, lowercased column name
\* equals it or contains it
Located(token) ==
  \E j \in DOMAIN raw.columns :
     LET c == Lower(Strip(raw.columns[j]))
     IN  c = token \/ Contains(c, token)

NotLocated ==
  (IF Located(tSales) THEN {} ELSE {"Sales"}) \cup
  (IF Located(tDate) THEN {} ELSE {"Date"}) \cup
  (IF Located(tRegion) THEN {} ELSE {"Region"})

\* C1: loading never raises, and every update on a loaded module returns a
\* figure (line chart or empty chart with a message) and three KPI strings
C1_NeverCrashes ==
  /\ pc # "crashed"
  /\ Updated =>
       /\ result.figure.kind \in {"line", "empty"}
       /\ result.total # <<>> /\ result.avg # <<>> /\ result.days # <<>>

\* C2: when a required column is not located, loading does not raise, the
\* cleaned table is None, and every update returns three placeholder KPIs
\* and an empty figure whose message names exactly the columns not located
C2_SchemaUnresolved ==
  (pc # "start" /\ NotLocated # {}) =>
     /\ pc = "loaded"
     /\ df_clean.isNone
     /\ Updated =>
          /\ result.total = <<"EM DASH">>
          /\ result.avg = <<"EM DASH">>
          /\ result.days = <<"EM DASH">>
          /\ result.figure.kind = "empty"
          /\ {n \in {"Sales", "Date", "Region"} :
                n \in Range(result.figure.message)} = NotLocated

C2_Witness ==
  /\ pc = "loaded" /\ df_clean.isNone /\ Updated
  /\ NotLocated = {"Date", "Region"}
  /\ region_value = North
  /\ result.total = <<"EM DASH">>

\* a source row is usable when its sales text is a numeral once ",", the
\* euro sign, "$" and surrounding blanks are removed, its date text is a
\* calendar date, and its region is present
SalesUsable(cell) ==
  /\ cell # NaN
  /\ IsDigits(Strip(SelectSeq(cell, LAMBDA c : c \notin {",", EuroSign, "$"})))

DateUsable(cell) == cell \in {D14, D15}

RegionUsable(cell) == cell # NaN

UsableRows ==
  {i \in DOMAIN Resolved.rows :
     /\ SalesUsable(Cell(Resolved, i, tSales))
     /\ DateUsable(Cell(Resolved, i, tDate))
     /\ RegionUsable(Cell(Resolved, i, tRegion))}

\* C3: the cleaned table holds exactly the usable source rows: a row with an
\* unparseable date or sales value or a missing region is excluded, every
\* other row is retained
C3_OnlyUsableRowsKept ==
  (pc = "loaded" /\ ~df_clean.isNone) =>
     Len(df_clean.rows) = Cardinality(UsableRows)

\* the region filter of the claim: "all" or no value selects every row
MatchesOrig(r, rv) == rv = All \/ rv = None \/ r.region = rv

Selected ==
  {i \in DOMAIN df_clean.rows :
     region_value = All \/ df_clean.rows[i].region = region_value}

\* C5: when no row matches, update returns "0", "0", "0" and an empty-state
\* figure, and no aggregate (mean, division) is evaluated
C5_EmptySafe ==
  (Updated /\ ~df_clean.isNone /\ Selected = {}) =>
     /\ result.total = <<"0">>
     /\ result.avg = <<"0">>
     /\ result.days = <<"0">>
     /\ result.figure.kind = "empty"
     /\ ~locals.aggregated

C5_Witness ==
  /\ Updated /\ ~df_clean.isNone
  /\ raw.rows # <<>>
  /\ df_clean.rows = <<>>
  /\ region_value = All
  /\ result.days = <<"0">>

RECURSIVE SumOver(_, _)
SumOver(f, S) ==
  IF S = {} THEN 0
  ELSE LET x == CHOOSE y \in S : TRUE IN f[x] + SumOver(f, S \ {x})

\* C6: the total equals the sum of sales over exactly the cleaned rows that
\* satisfy the region filter, and equals the sum of the daily series
C6_Conservation ==
  (Updated /\ ~df_clean.isNone) =>
     LET rowsum == SumOver([i \in DOMAIN df_clean.rows |->
                              df_clean.rows[i].sales], Selected)
     IN  IF locals.aggregated
         THEN /\ locals.total_sales = rowsum
              /\ locals.total_sales =
                   SumOver([k \in DOMAIN locals.daily |->
                              locals.daily[k].sales], DOMAIN locals.daily)
              /\ result.total = FormatThousands(rowsum)
         ELSE rowsum = 0 /\ result.total = <<"0">>

C6_Witness ==
  /\ Updated /\ locals.aggregated
  /\ Len(locals.dff) = 2
  /\ Len(locals.daily) = 1
  /\ locals.total_sales = 1005
  /\ result.total = <<"1", ",", "0", "0", "5">>

\* C7: for a non-empty view the daily series has exactly one entry per
\* distinct date of the view, each the sum of the sales of that date, in
\* strictly increasing date order
C7_DailySeries ==
  (Updated /\ locals.aggregated) =>
     LET dff == locals.dff
         daily == locals.daily
     IN  /\ {daily[k].date : k \in DOMAIN daily} =
              {dff[i].date : i \in DOMAIN dff}
         /\ \A k \in DOMAIN daily :
               daily[k].sales =
                 SumOver([i \in DOMAIN dff |-> dff[i].sales],
                         {i \in DOMAIN dff : dff[i].date = daily[k].date})
         /\ \A k \in 1..(Len(daily) - 1) : daily[k].date < daily[k + 1].date
         /\ result.figure.x = [k \in DOMAIN daily |-> daily[k].date]
         /\ result.figure.y = [k \in DOMAIN daily |-> daily[k].sales]

C7_Witness ==
  /\ Updated /\ locals.aggregated
  /\ Len(locals.dff) = 2
  /\ locals.dff[1].date > locals.dff[2].date
  /\ Len(locals.daily) = 2

\* C8: for a non-empty view the day count is the number of unique dates of
\* the view and the average is the total divided by that day count
C8_DaysAndAverage ==
  (Updated /\ locals.aggregated) =>
     LET n == Cardinality({locals.dff[i].date : i \in DOMAIN locals.dff})
     IN  /\ locals.days = n
         /\ result.days = FormatThousands(n)
         /\ locals.avg_daily.den > 0
         /\ locals.avg_daily.num * n =
              locals.total_sales * locals.avg_daily.den

C8_Witness ==
  /\ Updated /\ locals.aggregated
  /\ region_value = North
  /\ locals.days = 2
  /\ locals.total_sales = 1005
  /\ result.avg = <<"5", "0", "2">>

(***************************************************************************)
(* Properties of the formatter (checked under SpecFormatter)               *)
(***************************************************************************)
Input == files[1] \o files[2] \o files[3]

IsPink(r) == r.product # NaN /\ Lower(r.product) = PinkMorsel

\* the price text is a numeral once "$" and "," are removed
PriceNumeral(cell) ==
  /\ cell # NaN
  /\ IsDigits(SelectSeq(cell, LAMBDA c : c \notin {"$", ","}))

PriceValue(cell) == DigitsValue(SelectSeq(cell, LAMBDA c : c \notin {"$", ","}))

\* C9: with parseable prices, the output has the columns Sales, Date,
\* Region in that order and one row per input row of product "pink morsel"
\* (any case), in input order, with Sales = price * quantity and the date
\* and region of the input row
C9_FormatterOutput ==
  (fpc # "start" /\ \A i \in DOMAIN Input : PriceNumeral(Input[i].price)) =>
     /\ fpc # "failed"
     /\ fpc = "done" =>
          LET pink == SelectSeq(Input, IsPink)
          IN  /\ out_file.written
              /\ out_file.columns = <<"Sales", "Date", "Region">>
              /\ Len(out_file.rows) = Len(pink)
              /\ \A i \in DOMAIN pink :
                    out_file.rows[i] =
                      <<<<PriceValue(pink[i].price) * pink[i].quantity>>,
                        pink[i].date, pink[i].region>>

C9_Witness ==
  /\ fpc = "done"
  /\ \A i \in DOMAIN Input : PriceNumeral(Input[i].price)
  /\ Len(files[1]) = 1 /\ Len(files[3]) = 1
  /\ IsPink(files[1][1]) /\ ~IsPink(files[3][1])
  /\ out_file.rows = <<<< <<2000>>, D15, <<"S", "o", "u", "t", "h">> >>>>

\* a price text that is not a number after stripping "$" and ","
PriceBad(cell) == cell # NaN /\ ~PriceNumeral(cell)

\* C10 as stated: if any input row has an unparseable price the run aborts
\* and the output file is never written
C10_AnyBadPriceAborts ==
  (fpc # "start" /\ \E i \in DOMAIN Input : PriceBad(Input[i].price)) =>
     (fpc = "failed" /\ ~out_file.written)

\* C10 amended: the run aborts, and the output file is never written,
\* exactly when a row that passes the product filter has a price text that
\* is not a number after stripping; such a price on a row of another
\* product is filtered out before the conversion and does not abort the run
C10_BadPinkPriceAborts ==
  fpc # "start" =>
     /\ (\E i \in DOMAIN Input : IsPink(Input[i]) /\ PriceBad(Input[i].price))
          <=> fpc = "failed"
     /\ fpc = "failed" => ~out_file.written

C10_Witness ==
  /\ fpc = "failed"
  /\ ~out_file.written
  /\ Len(Input) = 2
  /\ IsPink(Input[1]) /\ PriceNumeral(Input[1].price)
  /\ IsPink(Input[2]) /\ PriceBad(Input[2].price)

====
